---- MODULE Spec2Model ----
(***************************************************************************)
(* marvin-mk2: the label-based status workflow of a pull request.          *)
(*                                                                         *)
(*   - handle_comment / set_issue_state / find_commands (marvin/__main__)  *)
(*   - the four triage passes and run_triage (marvin/triage)               *)
(*                                                                         *)
(* Every request to the platform API is one step of the unit of work that  *)
(* issues it (the code suspends there); a request either takes effect and  *)
(* returns, or takes no effect and raises.                                 *)
(***************************************************************************)
EXTENDS Integers, Sequences, FiniteSets, TLC

\* ------------------------------------------------------------------ bounds
NumPRs == 2          \* pull requests 1..NumPRs, numbered in order of creation
MaxEvents == 2       \* comment events delivered in one behaviour
MaxTicks == 1        \* seconds the clock may advance in one behaviour
MaxLen == 5          \* tokens of a text given to find_commands on its own

PRs == 1..NumPRs

\* ------------------------------------------------------------------- text
\* A text is a sequence of tokens: "/" (the command prefix), " " and "\n"
\* (whitespace), and words.
Whitespace == {" ", "\n"}

BOT_NAME == <<"marvin-mk2">>
BotSuffix == <<"[bot]">>

\* (a slip: the opt-in label listed among the states)
ISSUE_STATES_WithMarvin == {"needs_review", "needs_work", "needs_merge", "marvin"}

ISSUE_STATES == {"needs_review", "needs_work", "needs_merge"}

\* The seven-member status set of the data model (spec, section 3).
StatusSet ==
  {"needs_review", "needs_work", "needs_merge", "needs_reviewer",
   "awaiting_reviewer", "needs_merger", "awaiting_merger"}

Labels == StatusSet \cup {"marvin"}

GREETING == "GREETING"
NO_SELF_REVIEW_TEXT == "NO_SELF_REVIEW_TEXT"

\* str.splitlines(): lines end at "\n"; a final "\n" opens no further line.
RECURSIVE FirstNewline(_, _)
FirstNewline(text, i) ==
  IF i > Len(text) THEN 0
  ELSE IF text[i] = "\n" THEN i
  ELSE FirstNewline(text, i + 1)

RECURSIVE splitlines(_)
splitlines(text) ==
  IF text = <<>> THEN <<>>
  ELSE LET i == FirstNewline(text, 1)
       IN IF i = 0 THEN <<text>>
          ELSE <<SubSeq(text, 1, i - 1)>> \o splitlines(SubSeq(text, i + 1, Len(text)))

\* str.startswith(prefix)
startswith(line, prefix) ==
  /\ Len(line) >= Len(prefix)
  /\ SubSeq(line, 1, Len(prefix)) = prefix

\* str.strip(): leading and trailing whitespace removed.
RECURSIVE lstrip(_)
lstrip(s) ==
  IF s # <<>> /\ Head(s) \in Whitespace THEN lstrip(Tail(s)) ELSE s

RECURSIVE rstrip(_)
rstrip(s) ==
  IF s # <<>> /\ s[Len(s)] \in Whitespace THEN rstrip(SubSeq(s, 1, Len(s) - 1)) ELSE s

strip(s) == rstrip(lstrip(s))

prefix == <<"/">>

\* (a slip: the strip() forgotten)
CommandOfLine_NoStrip(line) == SubSeq(line, Len(prefix) + 1, Len(line))

\* line[len(prefix):].strip() of a line that starts with the prefix
CommandOfLine(line) == strip(SubSeq(line, Len(prefix) + 1, Len(line)))

RECURSIVE CommandsOfLines(_)
CommandsOfLines(lines) ==
  IF lines = <<>> THEN <<>>
  ELSE (IF startswith(Head(lines), prefix) THEN <<CommandOfLine(Head(lines))>> ELSE <<>>)
       \o CommandsOfLines(Tail(lines))

find_commands(comment_text) == CommandsOfLines(splitlines(comment_text))

\* The command strings handle_comment compares against.
CmdOptIn == <<"marvin", " ", "opt-in">>
CmdNeedsWork == <<"status", " ", "needs_work">>
CmdNeedsReview == <<"status", " ", "needs_review">>
CmdNeedsMerge == <<"status", " ", "needs_merge">>

\* ------------------------------------------------------------ event inputs
Users ==
  { [id |-> 1, login |-> <<"alice">>],
    [id |-> 2, login |-> <<"bob">>],
    [id |-> 3, login |-> BOT_NAME],
    [id |-> 4, login |-> BOT_NAME \o BotSuffix] }

NL == <<"\n">>
Line(cmd) == prefix \o cmd

\* Comment bodies delivered to handle_comment.
Bodies ==
  { <<>>,
    <<"hello">>,
    Line(CmdOptIn),
    Line(CmdOptIn) \o NL \o Line(CmdNeedsReview),
    Line(CmdOptIn) \o NL \o Line(CmdNeedsMerge),
    Line(CmdNeedsWork),
    Line(CmdNeedsReview),
    <<"hello">> \o NL \o Line(CmdNeedsMerge) \o <<" ", " ">>,
    Line(CmdNeedsWork) \o NL \o Line(CmdNeedsReview),
    Line(CmdNeedsMerge) \o NL \o Line(CmdNeedsWork),
    Line(<<"status", " ", " ", "needs_work">>) \o NL \o Line(CmdNeedsMerge),
    Line(CmdNeedsReview) \o NL \o Line(CmdOptIn),
    prefix \o Line(CmdOptIn) }

\* ------------------------------------------------------------------ state
VARIABLES
  labels,     \* [PRs -> SUBSET Labels]: the labels each pull request carries
  pulls,      \* [PRs -> [user, repo, open, updated_at]]: the rest of its record
  now,        \* the clock, in seconds
  nevents,    \* comment events delivered so far
  hpc,        \* handle_comment: where it stands
  hev,        \* handle_comment: the event payload (comment, issue snapshot)
  hcmds,      \* handle_comment: commands not yet processed
  hsis,       \* set_issue_state: its arguments and locals
  hcalls,     \* handle_comment: the API requests it issued, in order
  reviews,    \* [PRs -> SUBSET Reviewers]: the reviews requested on each
  tpc,        \* run_triage: where it stands
  trepos,     \* run_triage: repositories not yet finished (the first is current)
  tpass,      \* run_triage: the pass under way, 1..4
  tsearch,    \* the pass's search results, in the order returned
  tnext,      \* index in tsearch of the next result the loop takes
  tissue,     \* the result the loop body is working on
  treviewer,  \* the reviewer get_reviewer returned
  tsis,       \* set_issue_status: its arguments and locals
  tlog        \* run_triage: what it did, in order

hvars == <<nevents, hpc, hev, hcmds, hsis, hcalls>>
tvars == <<reviews, tpc, trepos, tpass, tsearch, tnext, tissue, treviewer, tsis, tlog>>
vars == <<labels, pulls, now, nevents, hpc, hev, hcmds, hsis, hcalls,
          reviews, tpc, trepos, tpass, tsearch, tnext, tissue, treviewer, tsis, tlog>>

\* Units of work that handle comment events.
Handlers == {"h1", "h2"}

NoEvent == [pr |-> 0, user |-> [id |-> 0, login |-> <<>>], body |-> <<>>, labels |-> {}]
NoSis == [state |-> "none", state_labels |-> {}, pending |-> {}, base |-> 0]

\* One API request as logged: what it asks for, on which pull request, and
\* whether it took effect (ok) or raised.
Call(op, pr, arg, ok) == [op |-> op, pr |-> pr, arg |-> arg, ok |-> ok]

\* --------------------------------------------------------- set_issue_state
\* state_labels = label_names.intersection(ISSUE_STATES)
StateLabels(label_names) == label_names \cap ISSUE_STATES

\* (a slip: the loop without its "continue")
LabelsToDelete_All(state_labels, state) == state_labels

\* The labels the for-loop deletes: every state label except the one to set.
LabelsToDelete(state_labels, state) == {label \in state_labels : label # state}

\* if state not in state_labels: post it
NeedsPost(state_labels, state) == state \notin state_labels

\* set_issue_state(issue, state, ...) entered: its locals, from the snapshot;
\* base is the number of requests the handler had issued before the call.
EnterSetIssueState(issue_labels, state, base) ==
  LET state_labels == StateLabels(issue_labels)
  IN [state |-> state,
      state_labels |-> state_labels,
      pending |-> LabelsToDelete(state_labels, state),
      base |-> base]

\* ----------------------------------------------------------- handle_comment
\* (a slip: only the plain name compared)
IsBotLogin_PlainOnly(login) == login = BOT_NAME

\* comment_author_login in [BOT_NAME, BOT_NAME + "[bot]"]
IsBotLogin(login) == login \in {BOT_NAME, BOT_NAME \o BotSuffix}

\* by_pr_author = issue["user"]["id"] == comment["user"]["id"]
ByPrAuthor(ev) == pulls[ev.pr].user.id = ev.user.id

\* (a slip: the gate without by_pr_author)
OptInGate_AnyUser(by_pr_author, commands) ==
  IF commands = <<>> THEN "IndexError"
  ELSE IF CmdOptIn = commands[1] THEN "optin"
  ELSE "return"

\* if by_pr_author and "marvin opt-in" == commands[0]: ... else: return
\* (commands[0] of an empty list raises IndexError)
OptInGate(by_pr_author, commands) ==
  IF ~by_pr_author THEN "return"
  ELSE IF commands = <<>> THEN "IndexError"
  ELSE IF CmdOptIn = commands[1] THEN "optin"
  ELSE "return"

\* (a slip: the needs_merge branch without its by_pr_author test)
SelfReviewRefused_Never(by_pr_author) == FALSE

\* if by_pr_author: post the refusal, else: set_issue_state(needs_merge)
SelfReviewRefused(by_pr_author) == by_pr_author

\* A comment event arrives; the handler runs up to its first API request.
HandleComment(h, p, u, body) ==
  /\ hpc[h] \in {"idle", "done", "raised"}
  /\ nevents < MaxEvents
  /\ nevents' = nevents + 1
  /\ LET ev == [pr |-> p, user |-> u, body |-> body, labels |-> labels[p]]
         commands == find_commands(body)
         gate == OptInGate(ByPrAuthor(ev), commands)
     IN /\ hev' = [hev EXCEPT ![h] = ev]
        /\ hcalls' = [hcalls EXCEPT ![h] = <<>>]
        /\ hsis' = [hsis EXCEPT ![h] = NoSis]
        /\ IF IsBotLogin(u.login)
           THEN /\ hpc' = [hpc EXCEPT ![h] = "done"]
                /\ hcmds' = [hcmds EXCEPT ![h] = <<>>]
           ELSE /\ hcmds' = [hcmds EXCEPT ![h] = commands]
                /\ hpc' = [hpc EXCEPT ![h] =
                      IF "marvin" \notin ev.labels
                      THEN CASE gate = "optin" -> "optin_label"
                             [] gate = "IndexError" -> "raised"
                             [] OTHER -> "done"
                      ELSE "loop"]
  /\ UNCHANGED <<labels, pulls, now, tvars>>

\* gh.post(issue_url + "/labels", data={"labels": ["marvin"]})
OptInLabel(h) ==
  /\ hpc[h] = "optin_label"
  /\ \E ok \in BOOLEAN :
       /\ hcalls' = [hcalls EXCEPT ![h] = Append(@, Call("POST labels", hev[h].pr, "marvin", ok))]
       /\ labels' = IF ok THEN [labels EXCEPT ![hev[h].pr] = @ \cup {"marvin"}] ELSE labels
       /\ hpc' = [hpc EXCEPT ![h] = IF ok THEN "optin_greeting" ELSE "raised"]
  /\ UNCHANGED <<pulls, now, nevents, hev, hcmds, hsis, tvars>>

\* (a slip: the handler done once the greeting is posted)
AfterOptIn_Stop(commands) == <<>>

\* commands = commands[1:]
AfterOptIn(commands) == Tail(commands)

\* gh.post(issue["comments_url"], data={"body": GREETING}); commands = commands[1:]
OptInGreeting(h) ==
  /\ hpc[h] = "optin_greeting"
  /\ \E ok \in BOOLEAN :
       /\ hcalls' = [hcalls EXCEPT ![h] = Append(@, Call("POST comment", hev[h].pr, GREETING, ok))]
       /\ hpc' = [hpc EXCEPT ![h] = IF ok THEN "loop" ELSE "raised"]
       /\ hcmds' = [hcmds EXCEPT ![h] = IF ok THEN AfterOptIn(@) ELSE @]
  /\ UNCHANGED <<labels, pulls, now, nevents, hev, hsis, tvars>>

\* (a slip: an unknown command ends the loop)
AfterUnknown_Abort(rest) == <<>>

\* else: print(f"Unknown command: {command}"); the loop goes on with the
\* commands after it.
AfterUnknown(rest) == rest

\* for command in commands: one iteration, up to the API request it leads to.
NextCommand(h) ==
  /\ hpc[h] = "loop"
  /\ IF hcmds[h] = <<>>
     THEN /\ hpc' = [hpc EXCEPT ![h] = "done"]
          /\ UNCHANGED <<hcmds, hsis>>
     ELSE LET command == Head(hcmds[h])
              issue_labels == hev[h].labels
          IN /\ hcmds' = [hcmds EXCEPT ![h] =
                            IF command \in {CmdNeedsWork, CmdNeedsReview, CmdNeedsMerge}
                            THEN Tail(@)
                            ELSE AfterUnknown(Tail(@))]
             /\ CASE command = CmdNeedsWork ->
                       /\ hsis' = [hsis EXCEPT ![h] = EnterSetIssueState(issue_labels, "needs_work", Len(hcalls[h]))]
                       /\ hpc' = [hpc EXCEPT ![h] = "set_issue_state"]
                  [] command = CmdNeedsReview ->
                       /\ hsis' = [hsis EXCEPT ![h] = EnterSetIssueState(issue_labels, "needs_review", Len(hcalls[h]))]
                       /\ hpc' = [hpc EXCEPT ![h] = "set_issue_state"]
                  [] command = CmdNeedsMerge ->
                       IF SelfReviewRefused(ByPrAuthor(hev[h]))
                       THEN /\ hpc' = [hpc EXCEPT ![h] = "refuse"]
                            /\ UNCHANGED hsis
                       ELSE /\ hsis' = [hsis EXCEPT ![h] = EnterSetIssueState(issue_labels, "needs_merge", Len(hcalls[h]))]
                            /\ hpc' = [hpc EXCEPT ![h] = "set_issue_state"]
                  [] OTHER ->
                       /\ UNCHANGED <<hpc, hsis>>
  /\ UNCHANGED <<labels, pulls, now, nevents, hev, hcalls, tvars>>

\* gh.post(issue["comments_url"], data={"body": NO_SELF_REVIEW_TEXT})
RefuseSelfReview(h) ==
  /\ hpc[h] = "refuse"
  /\ \E ok \in BOOLEAN :
       /\ hcalls' = [hcalls EXCEPT ![h] = Append(@, Call("POST comment", hev[h].pr, NO_SELF_REVIEW_TEXT, ok))]
       /\ hpc' = [hpc EXCEPT ![h] = IF ok THEN "loop" ELSE "raised"]
  /\ UNCHANGED <<labels, pulls, now, nevents, hev, hcmds, hsis, tvars>>

\* One iteration of the for-loop: gh.delete(issue_url + "/labels/" + label).
\* The set is iterated in an order the code does not fix.
SetIssueStateDelete(h) ==
  /\ hpc[h] = "set_issue_state"
  /\ \E label \in hsis[h].pending, ok \in BOOLEAN :
       /\ hcalls' = [hcalls EXCEPT ![h] = Append(@, Call("DELETE label", hev[h].pr, label, ok))]
       /\ labels' = IF ok THEN [labels EXCEPT ![hev[h].pr] = @ \ {label}] ELSE labels
       /\ hsis' = [hsis EXCEPT ![h].pending = @ \ {label}]
       /\ hpc' = [hpc EXCEPT ![h] = IF ok THEN "set_issue_state" ELSE "raised"]
  /\ UNCHANGED <<pulls, now, nevents, hev, hcmds, tvars>>

\* After the loop: gh.post(issue_url + "/labels", data={"labels": [state]}),
\* then set_issue_state returns.
SetIssueStatePost(h) ==
  /\ hpc[h] = "set_issue_state"
  /\ hsis[h].pending = {}
  /\ NeedsPost(hsis[h].state_labels, hsis[h].state)
  /\ \E ok \in BOOLEAN :
       /\ hcalls' = [hcalls EXCEPT ![h] = Append(@, Call("POST labels", hev[h].pr, hsis[h].state, ok))]
       /\ labels' = IF ok THEN [labels EXCEPT ![hev[h].pr] = @ \cup {hsis[h].state}] ELSE labels
       /\ hpc' = [hpc EXCEPT ![h] = IF ok THEN "loop" ELSE "raised"]
  /\ UNCHANGED <<pulls, now, nevents, hev, hcmds, hsis, tvars>>

\* After the loop, the state already in the snapshot: set_issue_state returns
\* without a request.
SetIssueStateReturn(h) ==
  /\ hpc[h] = "set_issue_state"
  /\ hsis[h].pending = {}
  /\ ~NeedsPost(hsis[h].state_labels, hsis[h].state)
  /\ hpc' = [hpc EXCEPT ![h] = "loop"]
  /\ UNCHANGED <<labels, pulls, now, nevents, hev, hcmds, hsis, hcalls, tvars>>

\* ------------------------------------------------------------------ triage
Repos == {"repoA", "repoB"}

\* get_installation_repositories returns them in this order.
Repositories == <<"repoA", "repoB">>

\* team.get_reviewer's candidates.
None == "None"
Reviewers == {"carol"}

AWAITING_REVIEWER_TIMEOUT_SECONDS == 60 * 60 * 24 * 3
AWAITING_MERGER_TIMEOUT_SECONDS == 60 * 60 * 24 * 3

NoIssue == [number |-> 0, labels |-> {}, updated_at |-> 0]
NoStatus == [state |-> "none", state_labels |-> {}, pending |-> {}]

\* (a slip: "label:marvin" left out of a query)
timeout_awaiting_reviewer_query_NoMarvin(repository_name) ==
  [repo |-> repository_name, is |-> {"open", "pr"},
   label |-> {"awaiting_reviewer"}, sort |-> "updated-asc"]

\* The query_parameters of the four passes.
timeout_awaiting_reviewer_query(repository_name) ==
  [repo |-> repository_name, is |-> {"open", "pr"},
   label |-> {"awaiting_reviewer", "marvin"}, sort |-> "updated-asc"]

timeout_awaiting_merger_query(repository_name) ==
  [repo |-> repository_name, is |-> {"open", "pr"},
   label |-> {"awaiting_merger", "marvin"}, sort |-> "updated-asc"]

assign_mergers_query(repository_name) ==
  [repo |-> repository_name, is |-> {"open", "pr"},
   label |-> {"needs_merger", "marvin"}, sort |-> "created-asc"]

assign_reviewers_query(repository_name) ==
  [repo |-> repository_name, is |-> {"open", "pr"},
   label |-> {"needs_reviewer", "marvin"}, sort |-> "created-asc"]

\* (a slip: the two timeout passes called the other way round)
Passes_TimeoutsSwapped ==
  <<"timeout_awaiting_merger", "timeout_awaiting_reviewer",
    "assign_mergers", "assign_reviewers">>

\* (a slip: the assignment passes called ahead of the timeout passes)
Passes_AssignFirst ==
  <<"assign_mergers", "assign_reviewers",
    "timeout_awaiting_reviewer", "timeout_awaiting_merger">>

\* run_triage calls the passes in this order, for each repository.
Passes ==
  <<"timeout_awaiting_reviewer", "timeout_awaiting_merger",
    "assign_mergers", "assign_reviewers">>

IsTimeoutPass(pass) == Passes[pass] \in {"timeout_awaiting_reviewer", "timeout_awaiting_merger"}

PassQuery(pass, repository_name) ==
  CASE Passes[pass] = "timeout_awaiting_reviewer" -> timeout_awaiting_reviewer_query(repository_name)
    [] Passes[pass] = "timeout_awaiting_merger" -> timeout_awaiting_merger_query(repository_name)
    [] Passes[pass] = "assign_mergers" -> assign_mergers_query(repository_name)
    [] Passes[pass] = "assign_reviewers" -> assign_reviewers_query(repository_name)

\* The status each pass sets.
PassTarget(pass) ==
  CASE Passes[pass] = "timeout_awaiting_reviewer" -> "needs_reviewer"
    [] Passes[pass] = "timeout_awaiting_merger" -> "needs_merger"
    [] Passes[pass] = "assign_mergers" -> "awaiting_merger"
    [] Passes[pass] = "assign_reviewers" -> "awaiting_reviewer"

PassTimeout(pass) ==
  IF Passes[pass] = "timeout_awaiting_reviewer"
  THEN AWAITING_REVIEWER_TIMEOUT_SECONDS
  ELSE AWAITING_MERGER_TIMEOUT_SECONDS

\* merge_permission_needed of the pass's get_reviewer call
MergePermissionNeeded(pass) == Passes[pass] = "assign_mergers"

\* (a slip: <= for <)
IsFresh_OrEqual(age, timeout) == age <= timeout

\* if age.total_seconds() < TIMEOUT: break
IsFresh(age, timeout) == age < timeout

\* (a slip: the test dropped)
ReviewerFound_Always(reviewer) == TRUE

\* if reviewer is not None
ReviewerFound(reviewer) == reviewer # None

\* gh_util.search_issues: the open/closed, repository and label filters, and
\* the order asked for. Pull requests are numbered in order of creation; the
\* order among equal keys is the platform's.
IssueRecord(p) == [number |-> p, labels |-> labels[p], updated_at |-> pulls[p].updated_at]

Matching(q) ==
  { p \in PRs :
      /\ pulls[p].repo = q.repo
      /\ "open" \in q.is => pulls[p].open
      /\ q.label \subseteq labels[p] }

SortKey(p, sort) == IF sort = "created-asc" THEN p ELSE pulls[p].updated_at

search_issues(q) ==
  LET found == Matching(q)
      n == Cardinality(found)
      orders == { f \in [1..n -> found] :
                    /\ \A i, j \in 1..n : i # j => f[i] # f[j]
                    /\ \A i, j \in 1..n : i < j => SortKey(f[i], q.sort) <= SortKey(f[j], q.sort) }
  IN { [i \in 1..n |-> IssueRecord(f[i])] : f \in orders }

\* team.get_reviewer: some candidate, or None (the policy is not the core's).
get_reviewer(issue, merge_permission_needed) == Reviewers \cup {None}

\* gh_util.set_issue_status entered (spec, 4.1): the status labels of the
\* issue record other than the new one are to be removed, the new one added
\* if the record lacks it.
EnterSetIssueStatus(issue, state) ==
  LET state_labels == issue.labels \cap StatusSet
  IN [state |-> state,
      state_labels |-> state_labels,
      pending |-> state_labels \ {state}]

\* One entry of the run's log: an API request (ok: it took effect; found: the
\* pull requests a search returned), or a step of a loop ("visit": age is the
\* age computed, "end": the pass is over).
LogEntry(op, p, arg, age, ok) ==
  [op |-> op,
   repo |-> IF trepos = <<>> THEN "" ELSE Head(trepos),
   pass |-> tpass, pr |-> p, arg |-> arg, age |-> age, ok |-> ok, found |-> <<>>]

\* How a get_reviewer call is logged, by its merge_permission_needed.
GetReviewerOp(merge_permission_needed) ==
  IF merge_permission_needed THEN "get_reviewer(merge)" ELSE "get_reviewer"

\* repositories = await gh_util.get_installation_repositories(gh, token)
RunTriage ==
  /\ tpc = "idle"
  /\ \E ok \in BOOLEAN :
       /\ tlog' = Append(tlog, LogEntry("get_installation_repositories", 0, "", 0, ok))
       /\ IF ok
          THEN /\ trepos' = Repositories
               /\ tpass' = 1
               /\ tpc' = "search"
          ELSE /\ tpc' = "raised"
               /\ UNCHANGED <<trepos, tpass>>
  /\ UNCHANGED <<labels, pulls, now, hvars, reviews, tsearch, tnext, tissue, treviewer, tsis>>

\* A pass starts: its search request.
PassSearch ==
  /\ tpc = "search"
  /\ \E ok \in BOOLEAN :
       IF ok
       THEN \E search_results \in search_issues(PassQuery(tpass, Head(trepos))) :
              /\ tlog' = Append(tlog, [LogEntry("search", 0, "", 0, TRUE) EXCEPT
                                         !.found = [i \in DOMAIN search_results |->
                                                      search_results[i].number]])
              /\ tsearch' = search_results
              /\ tnext' = 1
              /\ tpc' = "iter"
       ELSE /\ tlog' = Append(tlog, LogEntry("search", 0, "", 0, FALSE))
            /\ tpc' = "raised"
            /\ UNCHANGED <<tsearch, tnext>>
  /\ UNCHANGED <<labels, pulls, now, hvars, reviews, trepos, tpass, tissue, treviewer, tsis>>

\* The pass's loop is left (exhausted, or break): run_triage goes on to the
\* next pass, the next repository, or ends.
PassEnds ==
  IF tpass < Len(Passes)
  THEN /\ tpass' = tpass + 1
       /\ tpc' = "search"
       /\ UNCHANGED trepos
  ELSE /\ trepos' = Tail(trepos)
       /\ tpass' = 1
       /\ tpc' = IF Tail(trepos) = <<>> THEN "done" ELSE "search"

\* async for issue in search_results (the timeout passes): the age test,
\* then set_issue_status is entered.
TimeoutNext ==
  /\ tpc = "iter"
  /\ IsTimeoutPass(tpass)
  /\ IF tnext > Len(tsearch)
     THEN /\ tlog' = Append(tlog, LogEntry("end", 0, "", 0, TRUE))
          /\ PassEnds
          /\ UNCHANGED <<tnext, tissue, tsis>>
     ELSE LET issue == tsearch[tnext]
              age == now - issue.updated_at
          IN /\ tnext' = tnext + 1
             /\ tissue' = issue
             /\ IF IsFresh(age, PassTimeout(tpass))
                THEN /\ tlog' = tlog \o << LogEntry("visit", issue.number, "", age, TRUE),
                                           LogEntry("end", 0, "", 0, TRUE) >>
                     /\ PassEnds
                     /\ UNCHANGED tsis
                ELSE /\ tlog' = Append(tlog, LogEntry("visit", issue.number, "", age, TRUE))
                     /\ tsis' = EnterSetIssueStatus(issue, PassTarget(tpass))
                     /\ tpc' = "set_issue_status"
                     /\ UNCHANGED <<trepos, tpass>>
  /\ UNCHANGED <<labels, pulls, now, hvars, reviews, tsearch, treviewer>>

\* async for issue in search_results (the assignment passes)
AssignNext ==
  /\ tpc = "iter"
  /\ ~IsTimeoutPass(tpass)
  /\ IF tnext > Len(tsearch)
     THEN /\ tlog' = Append(tlog, LogEntry("end", 0, "", 0, TRUE))
          /\ PassEnds
          /\ UNCHANGED <<tnext, tissue>>
     ELSE /\ tlog' = Append(tlog, LogEntry("visit", tsearch[tnext].number, "", 0, TRUE))
          /\ tnext' = tnext + 1
          /\ tissue' = tsearch[tnext]
          /\ tpc' = "get_reviewer"
          /\ UNCHANGED <<trepos, tpass>>
  /\ UNCHANGED <<labels, pulls, now, hvars, reviews, tsearch, treviewer, tsis>>

\* reviewer = await team.get_reviewer(...); if reviewer is not None: ... else: print
GetReviewer ==
  /\ tpc = "get_reviewer"
  /\ \E ok \in BOOLEAN :
       IF ok
       THEN \E reviewer \in get_reviewer(tissue, MergePermissionNeeded(tpass)) :
              /\ tlog' = Append(tlog, LogEntry(GetReviewerOp(MergePermissionNeeded(tpass)),
                                               tissue.number, reviewer, 0, TRUE))
              /\ treviewer' = reviewer
              /\ tpc' = IF ReviewerFound(reviewer) THEN "request_review" ELSE "iter"
       ELSE /\ tlog' = Append(tlog, LogEntry(GetReviewerOp(MergePermissionNeeded(tpass)),
                                             tissue.number, None, 0, FALSE))
            /\ tpc' = "raised"
            /\ UNCHANGED treviewer
  /\ UNCHANGED <<labels, pulls, now, hvars, reviews, trepos, tpass, tsearch, tnext, tissue, tsis>>

\* (a slip: a failed review request swallowed)
AfterRequestReview_Swallowed(ok) == "set_issue_status"

\* await gh_util.request_review(...): set_issue_status comes next, unless the
\* request raised.
AfterRequestReview(ok) == IF ok THEN "set_issue_status" ELSE "raised"

\* await gh_util.request_review(issue["pull_request"]["url"], reviewer, gh, token),
\* then set_issue_status is entered.
RequestReview ==
  /\ tpc = "request_review"
  /\ \E ok \in BOOLEAN :
       /\ tlog' = Append(tlog, LogEntry("request_review", tissue.number, treviewer, 0, ok))
       /\ reviews' = IF ok THEN [reviews EXCEPT ![tissue.number] = @ \cup {treviewer}] ELSE reviews
       /\ tsis' = IF AfterRequestReview(ok) = "set_issue_status"
                 THEN EnterSetIssueStatus(tissue, PassTarget(tpass))
                 ELSE tsis
       /\ tpc' = AfterRequestReview(ok)
  /\ UNCHANGED <<labels, pulls, now, hvars, trepos, tpass, tsearch, tnext, tissue, treviewer>>

\* set_issue_status: one label-removal request.
SetIssueStatusDelete ==
  /\ tpc = "set_issue_status"
  /\ \E label \in tsis.pending, ok \in BOOLEAN :
       /\ tlog' = Append(tlog, LogEntry("DELETE label", tissue.number, label, 0, ok))
       /\ labels' = IF ok THEN [labels EXCEPT ![tissue.number] = @ \ {label}] ELSE labels
       /\ tsis' = [tsis EXCEPT !.pending = @ \ {label}]
       /\ tpc' = IF ok THEN "set_issue_status" ELSE "raised"
  /\ UNCHANGED <<pulls, now, hvars, reviews, trepos, tpass, tsearch, tnext, tissue, treviewer>>

\* set_issue_status: the label-addition request, then it returns.
SetIssueStatusPost ==
  /\ tpc = "set_issue_status"
  /\ tsis.pending = {}
  /\ tsis.state \notin tsis.state_labels
  /\ \E ok \in BOOLEAN :
       /\ tlog' = Append(tlog, LogEntry("POST labels", tissue.number, tsis.state, 0, ok))
       /\ labels' = IF ok THEN [labels EXCEPT ![tissue.number] = @ \cup {tsis.state}] ELSE labels
       /\ tpc' = IF ok THEN "iter" ELSE "raised"
  /\ UNCHANGED <<pulls, now, hvars, reviews, trepos, tpass, tsearch, tnext, tissue, treviewer, tsis>>

\* set_issue_status: the new status already on the record, it returns
\* without an addition.
SetIssueStatusReturn ==
  /\ tpc = "set_issue_status"
  /\ tsis.pending = {}
  /\ tsis.state \in tsis.state_labels
  /\ tpc' = "iter"
  /\ UNCHANGED <<labels, pulls, now, hvars, reviews, trepos, tpass, tsearch, tnext, tissue,
                 treviewer, tsis, tlog>>

\* ------------------------------------------------------------------- specs

\* The clock at the start: one second past the threshold, so that the
\* values of updated_at below give ages around it.
StartTime == AWAITING_REVIEWER_TIMEOUT_SECONDS + 1

\* datetime.now(timezone.utc): the clock advances. It is read only by the
\* age test of the timeout passes, so it is advanced only ahead of one.
Tick ==
  /\ tpc = "iter"
  /\ IsTimeoutPass(tpass)
  /\ tnext <= Len(tsearch)
  /\ now < StartTime + MaxTicks
  /\ now' = now + 1
  /\ UNCHANGED <<labels, pulls, hvars, tvars>>

\* Label sets of a pull request when comment handling starts: at most one
\* status label each.
CommentInitLabels == {ls \in SUBSET Labels : Cardinality(ls \cap StatusSet) <= 1}

InitTriageVars(on) ==
  /\ reviews = [p \in PRs |-> {}]
  /\ tpc = IF on THEN "idle" ELSE "off"
  /\ trepos = <<>>
  /\ tpass = 0
  /\ tsearch = <<>>
  /\ tnext = 0
  /\ tissue = NoIssue
  /\ treviewer = None
  /\ tsis = NoStatus
  /\ tlog = <<>>

InitHandlers(on) ==
  /\ nevents = 0
  /\ hpc = [h \in Handlers |-> IF h \in on THEN "idle" ELSE "off"]
  /\ hev = [h \in Handlers |-> NoEvent]
  /\ hcmds = [h \in Handlers |-> <<>>]
  /\ hsis = [h \in Handlers |-> NoSis]
  /\ hcalls = [h \in Handlers |-> <<>>]

\* The pull request the comment events of SpecComment are about; handle_comment
\* reads and changes nothing of any other.
CommentPR == CHOOSE p \in PRs : \A q \in PRs : p <= q

InitComment ==
  /\ \E ls \in CommentInitLabels :
       labels = [p \in PRs |-> IF p = CommentPR THEN ls ELSE {}]
  /\ \E author \in Users :
       pulls = [p \in PRs |-> [user |-> author, repo |-> "repoA", open |-> TRUE, updated_at |-> 0]]
  /\ now = StartTime
  /\ InitHandlers({"h1"})
  /\ InitTriageVars(FALSE)

\* A handler goes on from where it is suspended.
HandlerStep(h) ==
  \/ OptInLabel(h)
  \/ OptInGreeting(h)
  \/ NextCommand(h)
  \/ RefuseSelfReview(h)
  \/ SetIssueStateDelete(h)
  \/ SetIssueStatePost(h)
  \/ SetIssueStateReturn(h)

NextComment ==
  \E h \in Handlers :
    \/ \E u \in Users, body \in Bodies : HandleComment(h, CommentPR, u, body)
    \/ HandlerStep(h)

\* Comment events handled one after the other.
SpecComment == InitComment /\ [][NextComment]_vars

\* find_commands on its own: a text is given, find_commands is applied to it.
Tokens == {"/", " ", "\n", "x"}
Texts == UNION { [1..n -> Tokens] : n \in 0..MaxLen }

InitFind ==
  /\ labels = [p \in PRs |-> {}]
  /\ pulls = [p \in PRs |-> [user |-> CHOOSE u \in Users : u.id = 1, repo |-> "repoA",
                              open |-> TRUE, updated_at |-> 0]]
  /\ now = StartTime
  /\ nevents = 0
  /\ hpc = [h \in Handlers |-> IF h = "h1" THEN "text" ELSE "off"]
  /\ \E comment_text \in Texts :
       hev = [h \in Handlers |-> IF h = "h1" THEN [NoEvent EXCEPT !.body = comment_text]
                                              ELSE NoEvent]
  /\ hcmds = [h \in Handlers |-> <<>>]
  /\ hsis = [h \in Handlers |-> NoSis]
  /\ hcalls = [h \in Handlers |-> <<>>]
  /\ InitTriageVars(FALSE)

\* commands = find_commands(comment_text)
FindCommands(h) ==
  /\ hpc[h] = "text"
  /\ hcmds' = [hcmds EXCEPT ![h] = find_commands(hev[h].body)]
  /\ hpc' = [hpc EXCEPT ![h] = "found"]
  /\ UNCHANGED <<labels, pulls, now, nevents, hev, hsis, hcalls, tvars>>

NextFind == \E h \in Handlers : FindCommands(h)

SpecFind == InitFind /\ [][NextFind]_vars

\* What a pull request is when a triage run starts: its labels and whether
\* it is open.
\* updated_at 1 and 2 give the ages threshold and threshold - 1 at StartTime;
\* it is read only of the results of the timeout passes.
TriageProfiles ==
  { [labels |-> {"marvin", "awaiting_reviewer"}, open |-> TRUE, updated_at |-> 1],
    [labels |-> {"marvin", "awaiting_reviewer"}, open |-> TRUE, updated_at |-> 2],
    [labels |-> {"marvin", "awaiting_merger"}, open |-> TRUE, updated_at |-> 1],
    [labels |-> {"marvin", "awaiting_merger"}, open |-> TRUE, updated_at |-> 2],
    [labels |-> {"marvin", "needs_merger"}, open |-> TRUE, updated_at |-> 1],
    [labels |-> {"marvin", "needs_reviewer"}, open |-> TRUE, updated_at |-> 1],
    [labels |-> {"awaiting_reviewer"}, open |-> TRUE, updated_at |-> 1],
    [labels |-> {"marvin", "awaiting_merger", "needs_merger"}, open |-> TRUE, updated_at |-> 1],
    [labels |-> {"marvin", "awaiting_reviewer"}, open |-> FALSE, updated_at |-> 1] }

\* The passes search one repository at a time, so only the order among the
\* pull requests of one repository matters: the first k are repoA's.
InitTriage ==
  /\ \E prof \in [PRs -> TriageProfiles], k \in 0..NumPRs :
       /\ labels = [p \in PRs |-> prof[p].labels]
       /\ pulls = [p \in PRs |->
                     [user |-> CHOOSE u \in Users : u.id = 1,
                      repo |-> IF p <= k THEN "repoA" ELSE "repoB",
                      open |-> prof[p].open, updated_at |-> prof[p].updated_at]]
  /\ now = StartTime
  /\ InitHandlers({})
  /\ InitTriageVars(TRUE)

NextTriage ==
  \/ RunTriage
  \/ PassSearch
  \/ TimeoutNext
  \/ AssignNext
  \/ GetReviewer
  \/ RequestReview
  \/ SetIssueStatusDelete
  \/ SetIssueStatusPost
  \/ SetIssueStatusReturn
  \/ Tick

\* One triage run, no comment event.
SpecTriage == InitTriage /\ [][NextTriage]_vars

\* A triage run with one comment event arriving at any point of it.
SpecProfiles ==
  { [labels |-> {}, open |-> TRUE, updated_at |-> 1],
    [labels |-> {"marvin", "needs_review"}, open |-> TRUE, updated_at |-> 1],
    [labels |-> {"marvin", "awaiting_reviewer"}, open |-> TRUE, updated_at |-> 2],
    [labels |-> {"marvin", "needs_merger"}, open |-> TRUE, updated_at |-> 1],
    [labels |-> {"marvin", "awaiting_merger", "needs_merger"}, open |-> TRUE, updated_at |-> 1] }

SpecUsers == {u \in Users : u.id \in {1, 2}}

SpecBodies ==
  { Line(CmdOptIn) \o NL \o Line(CmdNeedsMerge),
    Line(CmdNeedsWork),
    Line(CmdNeedsWork) \o NL \o Line(CmdNeedsReview) }

Init ==
  /\ \E prof \in [PRs -> SpecProfiles] :
       /\ labels = [p \in PRs |-> prof[p].labels]
       /\ pulls = [p \in PRs |->
                     [user |-> CHOOSE u \in Users : u.id = 1,
                      repo |-> IF p = 1 THEN "repoA" ELSE "repoB",
                      open |-> prof[p].open, updated_at |-> prof[p].updated_at]]
  /\ now = StartTime
  /\ InitHandlers({"h1"})
  /\ InitTriageVars(TRUE)

Next ==
  \/ NextTriage
  \/ \E h \in Handlers :
       \/ /\ nevents = 0
          /\ \E p \in PRs, u \in SpecUsers, body \in SpecBodies : HandleComment(h, p, u, body)
       \/ HandlerStep(h)

Spec == Init /\ [][Next]_vars

\* Comment events in flight at the same time: two units of work, each
\* suspended at its API requests, on the same pull request.
ConcurrentBodies ==
  { Line(CmdOptIn) \o NL \o Line(CmdNeedsMerge),
    Line(CmdNeedsWork),
    Line(CmdNeedsReview),
    Line(CmdNeedsMerge) }

InitConcurrent ==
  /\ \E ls \in CommentInitLabels :
       labels = [p \in PRs |-> IF p = CommentPR THEN ls ELSE {}]
  /\ pulls = [p \in PRs |-> [user |-> CHOOSE u \in Users : u.id = 1, repo |-> "repoA",
                              open |-> TRUE, updated_at |-> 0]]
  /\ now = StartTime
  /\ InitHandlers(Handlers)
  /\ InitTriageVars(FALSE)

NextConcurrent ==
  \E h \in Handlers :
    \/ \E u \in SpecUsers, body \in ConcurrentBodies : HandleComment(h, CommentPR, u, body)
    \/ HandlerStep(h)

SpecConcurrent == InitConcurrent /\ [][NextConcurrent]_vars

\* ------------------------------------------------- vocabulary of the claims
Commands(h) == find_commands(hev[h].body)
HasEvent(h) == hev[h].pr # 0
InSeq(x, seq) == \E i \in DOMAIN seq : seq[i] = x
IsPrefixOf(s1, s2) == Len(s1) <= Len(s2) /\ SubSeq(s2, 1, Len(s1)) = s1

\* Handler h issued the request (op, arg) / issued it and it took effect.
Issued(h, op, arg) ==
  \E i \in DOMAIN hcalls[h] : hcalls[h][i].op = op /\ hcalls[h][i].arg = arg
Effected(h, op, arg) == InSeq(Call(op, hev[h].pr, arg, TRUE), hcalls[h])

\* The literal bot identities of the claims.
BotLogins == { <<"marvin-mk2">>, <<"marvin-mk2", "[bot]">> }

\* The comment passes the opt-in gate: the snapshot carries marvin, or the
\* comment is the author's and its first command is the opt-in.
OptInFirst(h) == Commands(h) # <<>> /\ Commands(h)[1] = CmdOptIn
PassesGate(h) == "marvin" \in hev[h].labels \/ (ByPrAuthor(hev[h]) /\ OptInFirst(h))

\* The label requests of the set_issue_state call in hsis[h].
SisLabelCalls(h) ==
  { i \in DOMAIN hcalls[h] :
      i > hsis[h].base /\ hcalls[h][i].op \in {"POST labels", "DELETE label"} }

\* ------------------------------------------------------------------- claims

\* C1 (as claimed): after each set-status operation on a pull request,
\* several of one comment included, the pull request carries exactly the
\* status label just set and no other of set_issue_state's status set.
C1_ExclusiveAfterEachSet ==
  [][\A h \in Handlers :
       (hpc[h] = "set_issue_state" /\ hpc'[h] = "loop")
         => labels'[hev[h].pr] \cap ISSUE_STATES = {hsis[h].state}]_vars

\* C2 (as claimed): no step of comment handling or triage takes a pull
\* request with at most one label of the seven-member status set to more
\* than one.
C2_AtMostOneStatus ==
  [][\A p \in PRs :
       Cardinality(labels[p] \cap StatusSet) <= 1
         => Cardinality(labels'[p] \cap StatusSet) <= 1]_vars

\* C3 (as claimed): once a comment with a 'status needs_merge' command is
\* handled, if its author is the pull request's, needs_merge was not added
\* and the refusal was posted; if it is another user, not the bot,
\* needs_merge was set and no refusal posted.
C3_SelfReviewOriginal ==
  \A h \in Handlers :
    (HasEvent(h) /\ hpc[h] = "done" /\ InSeq(CmdNeedsMerge, Commands(h)))
      => IF ByPrAuthor(hev[h])
         THEN /\ ~Issued(h, "POST labels", "needs_merge")
              /\ Effected(h, "POST comment", NO_SELF_REVIEW_TEXT)
         ELSE hev[h].user.login \notin BotLogins
                => /\ ~Issued(h, "POST comment", NO_SELF_REVIEW_TEXT)
                   /\ \/ "needs_merge" \in hev[h].labels
                      \/ Effected(h, "POST labels", "needs_merge")

\* C3 (amended): for a comment with a 'status needs_merge' command, the
\* author's comment never issues an addition of needs_merge and another
\* user's never issues the refusal; and once a comment that passes the opt-in
\* gate and is not the bot's is handled to its end, the author's has posted
\* the refusal and another user's has set needs_merge.
C3_SelfReviewBlock ==
  \A h \in Handlers :
    (HasEvent(h) /\ InSeq(CmdNeedsMerge, Commands(h)))
      => /\ ByPrAuthor(hev[h]) => ~Issued(h, "POST labels", "needs_merge")
         /\ ~ByPrAuthor(hev[h]) => ~Issued(h, "POST comment", NO_SELF_REVIEW_TEXT)
         /\ (hpc[h] = "done" /\ PassesGate(h) /\ hev[h].user.login \notin BotLogins)
              => IF ByPrAuthor(hev[h])
                 THEN Effected(h, "POST comment", NO_SELF_REVIEW_TEXT)
                 ELSE \/ "needs_merge" \in hev[h].labels
                      \/ Effected(h, "POST labels", "needs_merge")

\* C3 witness: the author's 'status needs_merge' was handled to the end and
\* refused.
C3_Witness ==
  \E h \in Handlers :
    /\ hpc[h] = "done" /\ HasEvent(h) /\ ByPrAuthor(hev[h])
    /\ InSeq(CmdNeedsMerge, Commands(h))
    /\ Effected(h, "POST comment", NO_SELF_REVIEW_TEXT)

\* C4 (as claimed): on a pull request without marvin, a comment whose first
\* command is the opt-in, once handled, has added marvin and then posted the
\* greeting if its author is the pull request's, and issued no request at all
\* if it is anyone else.
C4_OptInOriginal ==
  \A h \in Handlers :
    (HasEvent(h) /\ "marvin" \notin hev[h].labels /\ OptInFirst(h))
      => IF ByPrAuthor(hev[h])
         THEN hpc[h] = "done"
                => /\ Len(hcalls[h]) >= 2
                   /\ hcalls[h][1] = Call("POST labels", hev[h].pr, "marvin", TRUE)
                   /\ hcalls[h][2] = Call("POST comment", hev[h].pr, GREETING, TRUE)
                   /\ "marvin" \in labels[hev[h].pr]
         ELSE hcalls[h] = <<>>

\* C4 (amended): the same, for an author who is not the bot; the requests of
\* such a comment start with the marvin label and continue with the greeting.
C4_OptInGate ==
  \A h \in Handlers :
    (HasEvent(h) /\ "marvin" \notin hev[h].labels /\ OptInFirst(h))
      => IF ByPrAuthor(hev[h]) /\ hev[h].user.login \notin BotLogins
         THEN /\ Len(hcalls[h]) >= 1
                   => (hcalls[h][1].op = "POST labels" /\ hcalls[h][1].arg = "marvin")
              /\ Len(hcalls[h]) >= 2
                   => /\ hcalls[h][1].ok
                      /\ hcalls[h][2].op = "POST comment" /\ hcalls[h][2].arg = GREETING
              /\ hpc[h] = "done"
                   => /\ Len(hcalls[h]) >= 2
                      /\ hcalls[h][1] = Call("POST labels", hev[h].pr, "marvin", TRUE)
                      /\ hcalls[h][2] = Call("POST comment", hev[h].pr, GREETING, TRUE)
                      /\ "marvin" \in labels[hev[h].pr]
         ELSE ~ByPrAuthor(hev[h]) => hcalls[h] = <<>>

\* C4 witness: the author's opt-in comment on a pull request without marvin
\* was handled to the end.
C4_Witness ==
  \E h \in Handlers :
    /\ hpc[h] = "done" /\ HasEvent(h) /\ ByPrAuthor(hev[h])
    /\ "marvin" \notin hev[h].labels /\ OptInFirst(h)
    /\ Len(hcalls[h]) >= 2

\* C5 (as claimed): on a pull request without marvin, a comment that does
\* not satisfy the opt-in gate ends normally: no error, no request.
C5_GateNoEffect ==
  \A h \in Handlers :
    (HasEvent(h) /\ "marvin" \notin hev[h].labels
       /\ ~(ByPrAuthor(hev[h]) /\ OptInFirst(h)))
      => hpc[h] = "done" /\ hcalls[h] = <<>>

\* C6: a set_issue_state call never deletes the label it sets, adds it only
\* when the snapshot lacks it, and issues no label request at all when the
\* snapshot's only status label is the one it sets.
C6_Idempotent ==
  \A h \in Handlers :
    hsis[h].state # "none"
      => /\ \A i \in SisLabelCalls(h) :
              /\ hcalls[h][i].op = "DELETE label" => hcalls[h][i].arg # hsis[h].state
              /\ hcalls[h][i].op = "POST labels"
                   => (hcalls[h][i].arg = hsis[h].state /\ hsis[h].state \notin hev[h].labels)
         /\ (hev[h].labels \cap ISSUE_STATES = {hsis[h].state}) => SisLabelCalls(h) = {}

\* C6 witness: a set_issue_state call for the snapshot's only status label
\* has returned.
C6_Witness ==
  \E h \in Handlers :
    /\ hsis[h].state # "none" /\ hpc[h] = "loop"
    /\ hev[h].labels \cap ISSUE_STATES = {hsis[h].state}

\* C7: a comment by the bot (plain or "[bot]"-suffixed login) ends at once,
\* with no request issued and the labels as they were.
C7_BotIgnored ==
  \A h \in Handlers :
    (HasEvent(h) /\ hev[h].user.login \in BotLogins)
      => /\ hcalls[h] = <<>>
         /\ hpc[h] = "done"
         /\ labels[hev[h].pr] = hev[h].labels

\* C7 witness: a comment by the "[bot]"-suffixed login, with a status command,
\* on an opted-in pull request.
C7_Witness ==
  \E h \in Handlers :
    /\ HasEvent(h) /\ hev[h].user.login = <<"marvin-mk2", "[bot]">>
    /\ "marvin" \in hev[h].labels
    /\ InSeq(CmdNeedsWork, Commands(h))

\* C11 (as claimed): a set_issue_state call that is over, one way or the
\* other, has attempted the removal of every status label of its snapshot
\* other than the one it sets.
C11_RemovalsAllAttempted ==
  \A h \in Handlers :
    (hsis[h].state # "none" /\ hpc[h] # "set_issue_state")
      => \A label \in (hev[h].labels \cap ISSUE_STATES) \ {hsis[h].state} :
           \E i \in SisLabelCalls(h) :
             hcalls[h][i].op = "DELETE label" /\ hcalls[h][i].arg = label

\* What a comment's commands ask for. A request is (op, arg); a status
\* command asks for the removal of the snapshot's other status labels, in any
\* order, then for the addition of its own unless the snapshot has it; the
\* author's needs_merge asks for the refusal; any other command for nothing.
Req(op, arg) == [op |-> op, arg |-> arg]
Requests(h) == [i \in DOMAIN hcalls[h] |-> Req(hcalls[h][i].op, hcalls[h][i].arg)]
OrdersOf(S) ==
  { f \in [1..Cardinality(S) -> S] : \A i, j \in DOMAIN f : i # j => f[i] # f[j] }
StatusOfCommand(c) ==
  CASE c = CmdNeedsWork -> "needs_work"
    [] c = CmdNeedsReview -> "needs_review"
    [] c = CmdNeedsMerge -> "needs_merge"
    [] OTHER -> "none"
ExpectedSetStatus(snapshot, state) ==
  LET others == (snapshot \cap {"needs_review", "needs_work", "needs_merge"}) \ {state}
  IN { [i \in DOMAIN f |-> Req("DELETE label", f[i])]
         \o (IF state \in snapshot THEN <<>> ELSE <<Req("POST labels", state)>>)
       : f \in OrdersOf(others) }
ExpectedCommand(c, snapshot, by_author) ==
  IF StatusOfCommand(c) = "none" THEN {<<>>}
  ELSE IF c = CmdNeedsMerge /\ by_author THEN {<<Req("POST comment", NO_SELF_REVIEW_TEXT)>>}
  ELSE ExpectedSetStatus(snapshot, StatusOfCommand(c))
RECURSIVE ExpectedLoop(_, _, _)
ExpectedLoop(cmds, snapshot, by_author) ==
  IF cmds = <<>> THEN {<<>>}
  ELSE { a \o b : a \in ExpectedCommand(Head(cmds), snapshot, by_author),
                  b \in ExpectedLoop(Tail(cmds), snapshot, by_author) }
Known(cmds) == SelectSeq(cmds, LAMBDA c : StatusOfCommand(c) # "none")
HasUnknown(cmds) == \E i \in DOMAIN cmds : StatusOfCommand(cmds[i]) = "none"

ThreeDays == 3 * 24 * 60 * 60

\* The entries of pass k on repository r, and some of them.
InPass(e, r, k) == e.repo = r /\ e.pass = k
Searched(r, k) == \E i \in DOMAIN tlog : InPass(tlog[i], r, k) /\ tlog[i].op = "search" /\ tlog[i].ok
Found(r, k) ==
  tlog[CHOOSE i \in DOMAIN tlog : InPass(tlog[i], r, k) /\ tlog[i].op = "search" /\ tlog[i].ok].found
Visits(r, k) == SelectSeq(tlog, LAMBDA e : InPass(e, r, k) /\ e.op = "visit")
Ended(r, k) == \E i \in DOMAIN tlog : InPass(tlog[i], r, k) /\ tlog[i].op = "end"
LabelRequests(r, k, p) ==
  { i \in DOMAIN tlog :
      InPass(tlog[i], r, k) /\ tlog[i].pr = p /\ tlog[i].op \in {"POST labels", "DELETE label"} }
Requested(r, k, p, op, arg) ==
  \E i \in DOMAIN tlog :
    InPass(tlog[i], r, k) /\ tlog[i].pr = p /\ tlog[i].op = op /\ tlog[i].arg = arg /\ tlog[i].ok
IsPrefix(s1, s2) == Len(s1) <= Len(s2) /\ \A i \in DOMAIN s1 : s1[i] = s2[i]
JustLogged == tlog[Len(tlog)]

TimeoutSource(k) == IF k = 1 THEN "awaiting_reviewer" ELSE "awaiting_merger"
TimeoutTarget(k) == IF k = 1 THEN "needs_reviewer" ELSE "needs_merger"

\* C8: in a timeout pass (the first two of a repository) the results are
\* taken in the order returned; every result taken before the last is at
\* least three days old; label requests go only to results taken at an age of
\* at least three days; and when the pass ends, every result taken at such an
\* age has been moved from awaiting_* to needs_* (its needs_* label added
\* unless the record already had it), the results not taken at such an age
\* still are awaiting_*, and either all results were taken or the last one
\* taken was fresher.
C8_TimeoutStopsAtFirstFresh ==
  \A r \in Repos, k \in {1, 2} :
    Searched(r, k) =>
      LET F == Found(r, k)
          V == Visits(r, k)
          stale == { i \in DOMAIN V : V[i].age >= ThreeDays }
      IN /\ IsPrefix([i \in DOMAIN V |-> V[i].pr], F)
         /\ \A i \in DOMAIN V : i < Len(V) => i \in stale
         /\ \A p \in PRs : LabelRequests(r, k, p) # {} => \E i \in stale : V[i].pr = p
         /\ Ended(r, k) =>
              /\ Len(V) = Len(F) \/ Len(V) \notin stale
              /\ \A i \in stale :
                   /\ Requested(r, k, V[i].pr, "DELETE label", TimeoutSource(k))
                   /\ \/ Requested(r, k, V[i].pr, "POST labels", TimeoutTarget(k))
                      \/ \A n \in LabelRequests(r, k, V[i].pr) : tlog[n].op # "POST labels"
              /\ (JustLogged.op = "end" /\ InPass(JustLogged, r, k)) =>
                   \A j \in DOMAIN F :
                     IF j \in stale
                     THEN TimeoutTarget(k) \in labels[F[j]] /\ TimeoutSource(k) \notin labels[F[j]]
                     ELSE TimeoutSource(k) \in labels[F[j]]

\* C8 witness: a timeout pass has ended after moving a result exactly three
\* days old and stopping at a fresher one.
C8_Witness ==
  \E r \in Repos, k \in {1, 2} :
    /\ Searched(r, k) /\ Ended(r, k)
    /\ JustLogged.op = "end" /\ InPass(JustLogged, r, k)
    /\ Len(Visits(r, k)) = 2
    /\ Visits(r, k)[1].age = ThreeDays
    /\ Visits(r, k)[2].age < ThreeDays
    /\ TimeoutTarget(k) \in labels[Visits(r, k)[1].pr]

\* C9: in an assignment pass (the last two of a repository) the results are
\* in order of creation and taken in that order; for a result get_reviewer
\* answers None for, no review is requested and no label request issued, and
\* the loop goes on: a pass that ends has taken every result.
C9_AssignmentSkipsAndContinues ==
  \A r \in Repos, k \in {3, 4} :
    Searched(r, k) =>
      LET F == Found(r, k)
          V == Visits(r, k)
      IN /\ \A i, j \in DOMAIN F : i < j => F[i] < F[j]
         /\ IsPrefix([i \in DOMAIN V |-> V[i].pr], F)
         /\ \A i \in DOMAIN tlog :
              (InPass(tlog[i], r, k) /\ tlog[i].op \in {"get_reviewer", "get_reviewer(merge)"}
                 /\ tlog[i].ok /\ tlog[i].arg = "None")
                => /\ LabelRequests(r, k, tlog[i].pr) = {}
                   /\ \A j \in DOMAIN tlog :
                        ~(InPass(tlog[j], r, k) /\ tlog[j].pr = tlog[i].pr
                            /\ tlog[j].op = "request_review")
                   /\ reviews[tlog[i].pr] = {}
                   /\ i = Len(tlog) => tpc = "iter"
         /\ Ended(r, k) => Len(V) = Len(F)

\* C9 witness: an assignment pass has ended in which the first result got no
\* reviewer and the second one did.
C9_Witness ==
  \E r \in Repos, k \in {3, 4} :
    /\ Searched(r, k) /\ Ended(r, k)
    /\ Len(Found(r, k)) = 2
    /\ \E i \in DOMAIN tlog :
         /\ InPass(tlog[i], r, k) /\ tlog[i].pr = Found(r, k)[1]
         /\ tlog[i].op \in {"get_reviewer", "get_reviewer(merge)"} /\ tlog[i].arg = "None" /\ tlog[i].ok
    /\ \E i \in DOMAIN tlog :
         /\ InPass(tlog[i], r, k) /\ tlog[i].pr = Found(r, k)[2]
         /\ tlog[i].op = "request_review" /\ tlog[i].ok

\* C10 (as claimed): a failure while a pull request is processed in a pass
\* stops neither the pass nor the passes and repositories after it: when the
\* run is over, every pass of every repository has searched and taken all its
\* results.
C10_FailureIsolated ==
  (tpc \in {"done", "raised"} /\ \E i \in DOMAIN tlog : tlog[i].pr # 0 /\ ~tlog[i].ok)
    => \A r \in Repos, k \in DOMAIN Passes :
         /\ Searched(r, k)
         /\ IsTimeoutPass(k) => Ended(r, k)
         /\ ~IsTimeoutPass(k) => Len(Visits(r, k)) = Len(Found(r, k))

\* The place of a log entry in the run: the repository's rank in the order
\* the installation lists them, then the pass.
RepoRank(r) == CHOOSE i \in DOMAIN Repositories : Repositories[i] = r
PassWork == { i \in DOMAIN tlog : tlog[i].op # "get_installation_repositories" }
\* The status a pass of a given rank sets, and how it asks for a reviewer.
StatusOfPass(k) ==
  CASE k = 1 -> "needs_reviewer" [] k = 2 -> "needs_merger"
    [] k = 3 -> "awaiting_merger" [] k = 4 -> "awaiting_reviewer"
ReviewerOpOfPass(k) ==
  CASE k = 3 -> {"get_reviewer(merge)"} [] k = 4 -> {"get_reviewer"} [] OTHER -> {}

\* C13: the run starts with the first repository's reviewer timeout; a pass
\* starts with its search, and the entry before a search is the end of the
\* pass before it: the next pass of the same repository in the order
\* reviewer timeout, merger timeout, merger assignment, reviewer assignment,
\* or after the fourth the first pass of the next repository; what a pass
\* does is what its rank says (the status it sets, the reviewer it asks for).
C13_PassOrder ==
  /\ \A i \in PassWork :
       /\ tlog[i].pass \in 1..4 /\ tlog[i].repo \in Repos
       /\ tlog[i].op = "POST labels" => tlog[i].arg = StatusOfPass(tlog[i].pass)
       /\ tlog[i].op \in {"get_reviewer", "get_reviewer(merge)"}
            => tlog[i].op \in ReviewerOpOfPass(tlog[i].pass)
       /\ tlog[i].op = "request_review" => tlog[i].pass \in {3, 4}
       /\ IF i - 1 \notin PassWork
          THEN tlog[i].op = "search" /\ tlog[i].pass = 1 /\ RepoRank(tlog[i].repo) = 1
          ELSE IF tlog[i].op = "search"
          THEN /\ tlog[i - 1].op = "end"
               /\ \/ /\ tlog[i].repo = tlog[i - 1].repo
                     /\ tlog[i].pass = tlog[i - 1].pass + 1
                  \/ /\ RepoRank(tlog[i].repo) = RepoRank(tlog[i - 1].repo) + 1
                     /\ tlog[i - 1].pass = 4 /\ tlog[i].pass = 1
          ELSE /\ tlog[i].repo = tlog[i - 1].repo /\ tlog[i].pass = tlog[i - 1].pass
               /\ tlog[i - 1].op # "end"
  /\ tpc = "done"
       => \A r \in Repos, k \in 1..4 : Searched(r, k) /\ Ended(r, k)

\* C13 witness: a run is over in which the last pass of the first
\* repository and the first pass of the second one each set a status.
C13_Witness ==
  /\ tpc = "done"
  /\ \E i, j \in DOMAIN tlog :
       /\ i < j
       /\ tlog[i].op = "POST labels" /\ tlog[i].ok
       /\ RepoRank(tlog[i].repo) = 1 /\ tlog[i].pass = 4
       /\ tlog[j].op = "POST labels" /\ tlog[j].ok
       /\ RepoRank(tlog[j].repo) = 2 /\ tlog[j].pass = 1

\* --------------------------------------- vocabulary of the find_commands claim
\* The lines of a text, by where they start: at 1 and after every newline,
\* as far as the text goes; a line runs up to the next newline.
NewlinesOf(text) == { i \in DOMAIN text : text[i] = "\n" }
LineStarts(text) == { s \in {1} \cup { i + 1 : i \in NewlinesOf(text) } : s <= Len(text) }
LineAt(text, s) ==
  LET ends == { i \in NewlinesOf(text) : i >= s } \cup {Len(text) + 1}
      e == CHOOSE i \in ends : \A j \in ends : i <= j
  IN SubSeq(text, s, e - 1)
SlashLineStarts(text) ==
  { s \in LineStarts(text) : LineAt(text, s) # <<>> /\ LineAt(text, s)[1] = "/" }
\* A text without the whitespace around it.
Trimmed(t) ==
  LET keep == { i \in DOMAIN t : t[i] \notin {" ", "\n"} }
  IN IF keep = {} THEN <<>>
     ELSE SubSeq(t, CHOOSE i \in keep : \A j \in keep : i <= j,
                    CHOOSE i \in keep : \A j \in keep : i >= j)
\* One command per line that starts with "/", in order of appearance: the
\* line less its first "/", trimmed.
CommandsExpected(text) ==
  LET starts == SlashLineStarts(text)
      kth(k) == CHOOSE s \in starts : Cardinality({ t \in starts : t <= s }) = k
  IN [k \in 1..Cardinality(starts) |-> Trimmed(Tail(LineAt(text, kth(k))))]

\* C14: find_commands returns, in order of appearance, one command per line
\* that starts with "/": the line less one leading "/", trimmed; other lines
\* give nothing.
C14_FindCommands ==
  \A h \in Handlers :
    hpc[h] = "found"
      => /\ hcmds[h] = CommandsExpected(hev[h].body)
         /\ Len(hcmds[h]) = Cardinality(SlashLineStarts(hev[h].body))

\* C14 witness: find_commands has returned for a text made of a line "//x",
\* and a line "/".
C14_Witness ==
  \E h \in Handlers :
    /\ hpc[h] = "found"
    /\ hev[h].body = <<"/", "/", "x", "\n", "/">>
    /\ hcmds[h] = << <<"/", "x">>, <<>> >>

\* ------------------------------------------------ more of the triage claims
\* What the triage run asks the platform to change.
TriageMutations == {"DELETE label", "POST labels", "request_review"}

\* C15: no step of a triage run changes the labels or the requested reviews
\* of a pull request that lacks the marvin label or is closed, and every
\* change the run asks for is on a result of the search of the pass it is in.
C15_TriageOnlyOptedIn ==
  [][/\ \A p \in PRs :
          ("marvin" \notin labels[p] \/ ~pulls[p].open)
            => (labels'[p] = labels[p] /\ reviews'[p] = reviews[p])
     /\ \A i \in DOMAIN tlog' :
          tlog'[i].op \in TriageMutations
            => /\ Searched(tlog'[i].repo, tlog'[i].pass)
               /\ InSeq(tlog'[i].pr, Found(tlog'[i].repo, tlog'[i].pass))]_vars

\* C15 witness: a reviewer timeout pass has ended that moved a pull request
\* while another of the same repository, awaiting_reviewer as well but without
\* marvin, is as it was.
C15_Witness ==
  \E p, q \in PRs :
    /\ pulls[p].repo = pulls[q].repo
    /\ labels[q] = {"awaiting_reviewer"}
    /\ Ended(pulls[p].repo, 1)
    /\ Requested(pulls[p].repo, 1, p, "POST labels", "needs_reviewer")

\* C16: no step of comment handling or of triage takes the marvin label off
\* a pull request, and a step that puts it on is the first request of a
\* handler whose comment is the pull request's author's and has 'marvin
\* opt-in' as its first command.
C16_MarvinLabelFrame ==
  [][\A p \in PRs :
       /\ "marvin" \in labels[p] => "marvin" \in labels'[p]
       /\ ("marvin" \notin labels[p] /\ "marvin" \in labels'[p])
            => \E h \in Handlers :
                 /\ hev[h].pr = p /\ ByPrAuthor(hev[h]) /\ OptInFirst(h)
                 /\ hcalls[h] = <<>>
                 /\ hcalls'[h] = <<Call("POST labels", p, "marvin", TRUE)>>]_vars

\* C16 witness: the author has opted a pull request in, the comment's other
\* command has been handled, a triage run is over, and marvin is there.
C16_Witness ==
  \E h \in Handlers :
    /\ HasEvent(h) /\ hpc[h] = "done" /\ tpc = "done"
    /\ "marvin" \notin hev[h].labels
    /\ Effected(h, "POST labels", "marvin")
    /\ "marvin" \in labels[hev[h].pr]

AssignSource(k) == IF k = 3 THEN "needs_merger" ELSE "needs_reviewer"
AssignTarget(k) == IF k = 3 THEN "awaiting_merger" ELSE "awaiting_reviewer"
AssignAsk(k) == IF k = 3 THEN "get_reviewer(merge)" ELSE "get_reviewer"

\* C18: in an assignment pass every label request on a pull request comes
\* after a review request on it that took effect, in the same pass, itself
\* right after the selection policy (asked with merge permission needed in
\* the merger pass, not needed in the reviewer pass) returned that reviewer;
\* the labels asked for are the pass's (needs_* off, awaiting_* on); and after
\* a review request that failed there is no label request and the pull
\* request has the labels the search saw.
C18_ReviewBeforeStatus ==
  \A i \in DOMAIN tlog :
    tlog[i].pass \in {3, 4} =>
      /\ tlog[i].op \in {"DELETE label", "POST labels"}
           => /\ \E j \in 2..(i - 1) :
                   /\ tlog[j].op = "request_review" /\ tlog[j].ok
                   /\ tlog[j].pr = tlog[i].pr
                   /\ InPass(tlog[j], tlog[i].repo, tlog[i].pass)
                   /\ tlog[j - 1].op = AssignAsk(tlog[i].pass)
                   /\ tlog[j - 1].pr = tlog[i].pr /\ tlog[j - 1].ok
                   /\ tlog[j - 1].arg = tlog[j].arg /\ tlog[j].arg # "None"
                   /\ tlog[j].arg \in reviews[tlog[i].pr]
              /\ tlog[i].op = "POST labels" => tlog[i].arg = AssignTarget(tlog[i].pass)
              /\ tlog[i].op = "DELETE label" => tlog[i].arg # AssignTarget(tlog[i].pass)
      /\ (tlog[i].op = "request_review" /\ ~tlog[i].ok)
           => /\ i = Len(tlog)
              /\ LabelRequests(tlog[i].repo, tlog[i].pass, tlog[i].pr) = {}
              /\ AssignSource(tlog[i].pass) \in labels[tlog[i].pr]
              /\ AssignTarget(tlog[i].pass) \in labels[tlog[i].pr]
                   => AssignTarget(tlog[i].pass) \in tissue.labels

\* C18 witness: a merger assignment pass has ended in which a review was
\* requested and the pull request then moved from needs_merger to
\* awaiting_merger.
C18_Witness ==
  \E p \in PRs :
    /\ Ended(pulls[p].repo, 3)
    /\ Requested(pulls[p].repo, 3, p, "request_review", "carol")
    /\ Requested(pulls[p].repo, 3, p, "DELETE label", "needs_merger")
    /\ Requested(pulls[p].repo, 3, p, "POST labels", "awaiting_merger")
    /\ reviews[p] = {"carol"}

\* The steps of the run in which a timeout took a pull request: the removals
\* of an awaiting_* label that took effect.
TimedOut(p) ==
  { i \in DOMAIN tlog :
      /\ tlog[i].pr = p /\ tlog[i].op = "DELETE label" /\ tlog[i].ok
      /\ tlog[i].arg \in {"awaiting_reviewer", "awaiting_merger"} }
\* The steps in which a timeout pass took a pull request at an age of three
\* days or more (the assignment passes compute no age).
StaleVisits(p) ==
  { i \in DOMAIN tlog : tlog[i].pr = p /\ tlog[i].op = "visit" /\ tlog[i].age >= ThreeDays }
NeedsOf(awaiting) == IF awaiting = "awaiting_reviewer" THEN "needs_reviewer" ELSE "needs_merger"
AskOf(awaiting) == IF awaiting = "awaiting_reviewer" THEN "get_reviewer" ELSE "get_reviewer(merge)"

\* C19: a run times a pull request out at most once; and when the run is
\* over, a pull request it timed out (awaiting_* to needs_*) has then been
\* taken by the matching assignment pass, which asked for a reviewer for it,
\* and if one was returned the pull request has been requested that review
\* and ends with awaiting_* as its one status.
C19_TimeoutThenAssign ==
  \A p \in PRs :
    /\ Cardinality(StaleVisits(p)) <= 1
    /\ Cardinality(TimedOut(p)) <= 1
    /\ tpc = "done" =>
         \A i \in TimedOut(p) :
           \E j \in DOMAIN tlog :
             /\ j > i
             /\ tlog[j].pr = p /\ tlog[j].repo = tlog[i].repo
             /\ tlog[j].op = AskOf(tlog[i].arg) /\ tlog[j].ok
             /\ tlog[j].arg # "None"
                  => /\ tlog[j].arg \in reviews[p]
                     /\ labels[p] \cap StatusSet = {tlog[i].arg}
                     /\ Requested(tlog[j].repo, tlog[j].pass, p, "DELETE label", NeedsOf(tlog[i].arg))
                     /\ Requested(tlog[j].repo, tlog[j].pass, p, "POST labels", tlog[i].arg)

\* C19 witness: a run is over in which a pull request awaiting a reviewer
\* was timed out, then given a reviewer again.
C19_Witness ==
  \E p \in PRs :
    /\ tpc = "done"
    /\ Requested(pulls[p].repo, 1, p, "DELETE label", "awaiting_reviewer")
    /\ Requested(pulls[p].repo, 1, p, "POST labels", "needs_reviewer")
    /\ Requested(pulls[p].repo, 4, p, "POST labels", "awaiting_reviewer")
    /\ reviews[p] # {}
    /\ labels[p] = {"marvin", "awaiting_reviewer"}

\* ------------------------------------------------- the concurrency claim
\* The one status a comment sets: its only command, a status command.
OnlyStatus(h) == IF Len(Commands(h)) = 1 THEN StatusOfCommand(Commands(h)[1]) ELSE "none"

\* C20 (as claimed): once two handlers have both finished comments on the
\* same pull request, opted in when each event was delivered, each comment
\* setting one status and the two statuses different, the pull request
\* carries exactly one of set_issue_state's status labels.
C20_ConcurrentOneStatus ==
  \A h, g \in Handlers :
    (/\ h # g /\ HasEvent(h) /\ HasEvent(g) /\ hev[h].pr = hev[g].pr
     /\ hpc[h] = "done" /\ hpc[g] = "done"
     /\ "marvin" \in hev[h].labels /\ "marvin" \in hev[g].labels
     /\ OnlyStatus(h) # "none" /\ OnlyStatus(g) # "none" /\ OnlyStatus(h) # OnlyStatus(g)
     /\ Effected(h, "POST labels", OnlyStatus(h))
     /\ Effected(g, "POST labels", OnlyStatus(g)))
      => Cardinality(labels[hev[h].pr] \cap ISSUE_STATES) = 1

====
